---- MODULE Spec2Model ----
(***************************************************************************)
(* Player standings of the smash leaderboard: the match store (players,    *)
(* matches, match_participants) and the handlers that derive the standings *)
(* from it.  The repository holds several versions of GET /api/players     *)
(* (a raw SQL statement with CTEs, an older SQL statement, and a Prisma    *)
(* in-memory version) plus the helpers of lib/prisma.ts; each is modelled  *)
(* as its own operation over the same store.                               *)
(***************************************************************************)
EXTENDS Integers, Sequences, FiniteSets, TLC

VARIABLES players, matches, match_participants, resp,
          dash, browser, revalidation

vars == <<players, matches, match_participants, resp, dash, browser, revalidation>>

\* The dashboard component, the browser it runs in and the revalidation
\* endpoint: untouched by the store's writers and by the server's handlers.
client == <<dash, browser, revalidation>>

(***************************************************************************)
(* Bounds of the model.                                                    *)
(***************************************************************************)
MaxMatches == 2
MaxArchived == 1
MaxDuels == 4
MaxTime == 2
MaxTopDuels == 3
NumTopPlayers == 12
MaxListed == 2
MaxPage == 2
MaxLimit == 2

(***************************************************************************)
(* Values.                                                                 *)
(***************************************************************************)
\* SQL NULL / JavaScript null of a text column.
Null == "null"

\* Character names the model draws from, listed in ascending text order, so
\* that the position in the list decides ORDER BY smash_character.
Characters == <<"FOX", "MARIO", "ZELDA">>

CharIndex(c) == CHOOSE i \in 1..Len(Characters) : Characters[i] = c

CharLess(a, b) == CharIndex(a) < CharIndex(b)

\* No response has been produced since the store last changed.
NoResp == [op |-> "none", arg |-> 0, rows |-> <<>>]

\* The store as one value: the snapshot a handler reads.
DB == [players |-> players, matches |-> matches,
       match_participants |-> match_participants]

Min(S) == CHOOSE x \in S : \A y \in S : x <= y

RECURSIVE SumField(_, _, _)
\* SUM(mp.<f>) / reduce((sum, p) => sum + p.<f>, 0) over the rows S.
SumField(db, S, f) ==
  IF S = {} THEN 0
  ELSE LET i == CHOOSE x \in S : TRUE
       IN db.match_participants[i][f] + SumField(db, S \ {i}, f)

(***************************************************************************)
(* The store's writers.                                                    *)
(***************************************************************************)
\* A match_participants row.  The combat counters follow the result of the
\* row, with different values per counter so that no two sums coincide.
Row(m, p, c, cpu, won) ==
  [match_id |-> m, player |-> p, smash_character |-> c, is_cpu |-> cpu,
   total_kos |-> IF won THEN 3 ELSE 1,
   total_falls |-> IF won THEN 1 ELSE 2,
   total_sds |-> IF won THEN 0 ELSE 1,
   has_won |-> won]

\* players table: id -> row.
PlayerRow(e, r, t) == [elo |-> e, is_ranked |-> r, top_ten_played |-> t]

\* INSERT of one match (created_at = t) and its participant rows.  rows is a
\* sequence of rows whose match_id is the new match's id.
RecordMatch(t, rows) ==
  LET m == Cardinality(DOMAIN matches) + 1
      n == Cardinality(DOMAIN match_participants)
  IN /\ matches' = [x \in DOMAIN matches \cup {m} |->
                      IF x = m THEN [created_at |-> t, archived |-> FALSE]
                      ELSE matches[x]]
     /\ match_participants' =
          [x \in DOMAIN match_participants \cup ((n + 1)..(n + Len(rows))) |->
             IF x > n THEN [rows[x - n] EXCEPT !.match_id = m]
             ELSE match_participants[x]]
     /\ resp' = NoResp
     /\ UNCHANGED <<players, client>>

\* UPDATE matches SET archived = true WHERE id = m.
ArchiveMatch(m) ==
  /\ m \in DOMAIN matches
  /\ ~matches[m].archived
  /\ Cardinality({x \in DOMAIN matches : matches[x].archived}) < MaxArchived
  /\ matches' = [matches EXCEPT ![m].archived = TRUE]
  /\ resp' = NoResp
  /\ UNCHANGED <<players, match_participants, client>>

(***************************************************************************)
(* GET /api/players, raw SQL version (created_at ordering).                *)
(***************************************************************************)
\* WHERE mp.is_cpu = false
NonCpuRows(db) ==
  {i \in DOMAIN db.match_participants : ~db.match_participants[i].is_cpu}

\* one_v_one_matches CTE: non-archived matches with exactly 2 non-CPU rows.
one_v_one_matches(db) ==
  {m \in DOMAIN db.matches :
     /\ ~db.matches[m].archived
     /\ Cardinality({i \in NonCpuRows(db) :
                       db.match_participants[i].match_id = m}) = 2}

\* match_participants mp JOIN one_v_one_matches ovm WHERE mp.is_cpu = false,
\* restricted to one player.
OneVOneRows(db, p) ==
  {i \in NonCpuRows(db) :
     /\ db.match_participants[i].player = p
     /\ db.match_participants[i].match_id \in one_v_one_matches(db)}

\* main_chars CTE, row rn = 1 of the player: highest COUNT(*), then the
\* smallest smash_character; NULL from the LEFT JOIN when there is no row.
main_chars(db, p) ==
  LET R == OneVOneRows(db, p)
      cnt(c) == Cardinality({i \in R : db.match_participants[i].smash_character = c})
      used == {db.match_participants[i].smash_character : i \in R}
  IN IF used = {} THEN Null
     ELSE CHOOSE c \in used :
            \A d \in used \ {c} :
               \/ cnt(c) > cnt(d)
               \/ cnt(c) = cnt(d) /\ CharLess(c, d)

\* player_stats CTE with the COALESCEs of the final SELECT.
player_stats(db, p) ==
  LET R == OneVOneRows(db, p)
  IN [total_wins |-> Cardinality({i \in R : db.match_participants[i].has_won}),
      total_losses |-> Cardinality({i \in R : ~db.match_participants[i].has_won}),
      total_kos |-> SumField(db, R, "total_kos"),
      total_falls |-> SumField(db, R, "total_falls"),
      total_sds |-> SumField(db, R, "total_sds")]

\* ORDER BY m.created_at DESC, m.id DESC: row i comes before row j.
CreatedAtBefore(db, i, j) ==
  LET mi == db.match_participants[i].match_id
      mj == db.match_participants[j].match_id
  IN \/ db.matches[mi].created_at > db.matches[mj].created_at
     \/ /\ db.matches[mi].created_at = db.matches[mj].created_at
        /\ mi > mj

RECURSIVE OrderByCreatedAt(_, _)
OrderByCreatedAt(db, S) ==
  IF S = {} THEN <<>>
  ELSE LET i == CHOOSE x \in S : \A y \in S \ {x} : ~CreatedAtBefore(db, y, x)
       IN <<i>> \o OrderByCreatedAt(db, S \ {i})

\* ordered_player_matches CTE: the player's rows; match_order is the position.
ordered_player_matches(db, p) == OrderByCreatedAt(db, OneVOneRows(db, p))

\* first_losses CTE: MIN(match_order) WHERE has_won = false; 0 stands for the
\* NULL of the LEFT JOIN (no loss).
first_losses(db, p) ==
  LET o == ordered_player_matches(db, p)
      L == {k \in 1..Len(o) : ~db.match_participants[o[k]].has_won}
  IN IF L = {} THEN 0 ELSE Min(L)

\* win_streaks CTE with COALESCE(ws.current_win_streak, 0).
win_streaks(db, p) ==
  LET o == ordered_player_matches(db, p)
      fl == first_losses(db, p)
  IN Cardinality({k \in 1..Len(o) :
                    /\ db.match_participants[o[k]].has_won
                    /\ (fl = 0 \/ k < fl)})

RECURSIVE EloDescOrders(_, _)
\* ORDER BY elo DESC over the players S: every order the database may return
\* (rows of equal elo come in any order).
EloDescOrders(db, S) ==
  IF S = {} THEN {<<>>}
  ELSE LET top == {p \in S : \A q \in S : db.players[p].elo >= db.players[q].elo}
       IN UNION {{<<p>> \o t : t \in EloDescOrders(db, S \ {p})} : p \in top}

\* One row of the final SELECT.
SqlPlayerRow(db, p, streak) ==
  LET ps == player_stats(db, p)
  IN [id |-> p,
      elo |-> db.players[p].elo,
      is_ranked |-> db.players[p].top_ten_played >= 3,
      top_ten_played |-> db.players[p].top_ten_played,
      main_character |-> main_chars(db, p),
      total_wins |-> ps.total_wins,
      total_losses |-> ps.total_losses,
      total_kos |-> ps.total_kos,
      total_falls |-> ps.total_falls,
      total_sds |-> ps.total_sds,
      current_win_streak |-> streak]

\* The final SELECT in the order ord.
SqlBody(db, ord) ==
  [k \in 1..Len(ord) |-> SqlPlayerRow(db, ord[k], win_streaks(db, ord[k]))]

\* GET of the SQL version: one query over the snapshot, nothing written.
GET_sql ==
  /\ \E ord \in EloDescOrders(DB, DOMAIN players) :
       resp' = [op |-> "GET_sql", arg |-> 0, rows |-> SqlBody(DB, ord)]
  /\ UNCHANGED <<players, matches, match_participants, client>>

(***************************************************************************)
(* GET /api/players, older SQL version (match_id ordering, correlated      *)
(* subquery for the first loss).  Its other CTEs and its final SELECT are  *)
(* those of the newer statement.                                           *)
(***************************************************************************)
RECURSIVE OrderByMatchIdDesc(_, _)
\* ORDER BY match_id DESC over the rows S.
OrderByMatchIdDesc(db, S) ==
  IF S = {} THEN <<>>
  ELSE LET i == CHOOSE x \in S :
                  \A y \in S : db.match_participants[x].match_id
                                 >= db.match_participants[y].match_id
       IN <<i>> \o OrderByMatchIdDesc(db, S \ {i})

\* The subquery sub: ROW_NUMBER() over the rows left by WHERE has_won = false,
\* so the numbers run 1..(number of losses); COALESCE(MIN(...), 999999).
old_first_loss_order(db, p) ==
  LET losses == {i \in OneVOneRows(db, p) : ~db.match_participants[i].has_won}
      sub == 1..Cardinality(losses)
  IN IF sub = {} THEN 999999 ELSE Min(sub)

\* win_streaks CTE of the older statement.
old_win_streaks(db, p) ==
  LET o == OrderByMatchIdDesc(db, OneVOneRows(db, p))
  IN Cardinality({k \in 1..Len(o) :
                    /\ db.match_participants[o[k]].has_won
                    /\ k <= old_first_loss_order(db, p)})

SqlOldBody(db, ord) ==
  [k \in 1..Len(ord) |-> SqlPlayerRow(db, ord[k], old_win_streaks(db, ord[k]))]

GET_sql_old ==
  /\ \E ord \in EloDescOrders(DB, DOMAIN players) :
       resp' = [op |-> "GET_sql_old", arg |-> 0, rows |-> SqlOldBody(DB, ord)]
  /\ UNCHANGED <<players, matches, match_participants, client>>

(***************************************************************************)
(* GET /api/players, Prisma version: findMany and an in-memory transform.  *)
(***************************************************************************)
\* Program constant of top10PlayerIds: slice(0, 10).
TopN == 10

\* player.match_participants: where is_cpu = false, orderBy match_id desc.
PrismaPlayerRows(db, p) ==
  OrderByMatchIdDesc(db, {i \in NonCpuRows(db) : db.match_participants[i].player = p})

\* p.match.match_participants: the match's rows where is_cpu = false.
PrismaMatchRows(db, i) ==
  {j \in NonCpuRows(db) :
     db.match_participants[j].match_id = db.match_participants[i].match_id}

\* top10PlayerIds with a slice one short: filter(is_ranked).slice(0, 9).
top10PlayerIds_sliceNine(db, ord) ==
  LET ranked == SelectSeq(ord, LAMBDA p : db.players[p].is_ranked)
  IN {ranked[k] : k \in 1..(IF Len(ranked) < 9 THEN Len(ranked) ELSE 9)}

\* top10PlayerIds without the is_ranked filter: slice(0, 10) of all players.
top10PlayerIds_unfiltered(db, ord) ==
  {ord[k] : k \in 1..(IF Len(ord) < TopN THEN Len(ord) ELSE TopN)}

\* filter(player => player.is_ranked).slice(0, 10).map(player => player.id)
top10PlayerIds(db, ord) ==
  LET ranked == SelectSeq(ord, LAMBDA p : db.players[p].is_ranked)
  IN {ranked[k] : k \in 1..(IF Len(ranked) < TopN THEN Len(ranked) ELSE TopN)}

\* mainCharacter: characterCounts is filled in row order, Object.entries keeps
\* the insertion order of the keys, and the stable sort by count descending
\* leaves the first-inserted of the most frequent characters in front.
PrismaMainCharacter(db, p) ==
  LET o == PrismaPlayerRows(db, p)
      ch(k) == db.match_participants[o[k]].smash_character
      cnt(c) == Cardinality({k \in 1..Len(o) : ch(k) = c})
      first(c) == Min({k \in 1..Len(o) : ch(k) = c})
      used == {ch(k) : k \in 1..Len(o)}
  IN IF Len(o) = 0 THEN Null
     ELSE CHOOSE c \in used :
            \A d \in used \ {c} :
               \/ cnt(c) > cnt(d)
               \/ cnt(c) = cnt(d) /\ first(c) < first(d)

\* oneVOneParticipants: the player's rows whose match has 2 non-CPU rows,
\* in the order of player.match_participants.
oneVOneParticipants(db, p) ==
  SelectSeq(PrismaPlayerRows(db, p),
            LAMBDA i : Cardinality(PrismaMatchRows(db, i)) = 2)

RECURSIVE StreakLoop(_, _)
\* for (const participant of ...) { if (has_won) streak++; else break; }
StreakLoop(db, o) ==
  IF o = <<>> THEN 0
  ELSE IF db.match_participants[Head(o)].has_won
       THEN 1 + StreakLoop(db, Tail(o))
       ELSE 0

\* uniqueTop10Opponents: for each row of the player in a match of 2 non-CPU
\* rows, the non-CPU row of another player (find), kept when that player is in
\* top10PlayerIds.
uniqueTop10Opponents(db, p, ord) ==
  LET o == PrismaPlayerRows(db, p)
      opp(i) == {j \in PrismaMatchRows(db, i) : db.match_participants[j].player # p}
  IN {db.match_participants[j].player :
        j \in UNION {opp(o[k]) : k \in {x \in 1..Len(o) :
                                          Cardinality(PrismaMatchRows(db, o[x])) = 2}}}
     \cap top10PlayerIds(db, ord)

\* isRanked with the threshold off by one.
isRanked_above3(top10PlayersPlayed) == top10PlayersPlayed > 3

\* const isRanked = top10PlayersPlayed >= 3
isRanked(top10PlayersPlayed) == top10PlayersPlayed >= 3

PrismaPlayerRow(db, p, ord) ==
  LET o == oneVOneParticipants(db, p)
      R == {o[k] : k \in 1..Len(o)}
      top10PlayersPlayed == Cardinality(uniqueTop10Opponents(db, p, ord))
  IN [id |-> p,
      elo |-> db.players[p].elo,
      is_ranked |-> isRanked(top10PlayersPlayed),
      top_10_players_played |-> top10PlayersPlayed,
      main_character |-> PrismaMainCharacter(db, p),
      total_wins |-> Cardinality({i \in R : db.match_participants[i].has_won}),
      total_losses |-> Cardinality({i \in R : ~db.match_participants[i].has_won}),
      total_kos |-> SumField(db, R, "total_kos"),
      total_falls |-> SumField(db, R, "total_falls"),
      total_sds |-> SumField(db, R, "total_sds"),
      current_win_streak |-> StreakLoop(db, o)]

PrismaBody(db, ord) ==
  [k \in 1..Len(ord) |-> PrismaPlayerRow(db, ord[k], ord)]

\* GET of the Prisma version persisting the derived fields to the players rows.
GET_prisma_writeBack ==
  /\ \E ord \in EloDescOrders(DB, DOMAIN players) :
       /\ resp' = [op |-> "GET_prisma", arg |-> 0, rows |-> PrismaBody(DB, ord)]
       /\ players' = [p \in DOMAIN players |->
                        [players[p] EXCEPT
                           !.top_ten_played =
                              Cardinality(uniqueTop10Opponents(DB, p, ord)),
                           !.is_ranked =
                              isRanked(Cardinality(uniqueTop10Opponents(DB, p, ord)))]]
  /\ UNCHANGED <<matches, match_participants, client>>

GET_prisma ==
  /\ \E ord \in EloDescOrders(DB, DOMAIN players) :
       resp' = [op |-> "GET_prisma", arg |-> 0, rows |-> PrismaBody(DB, ord)]
  /\ UNCHANGED <<players, matches, match_participants, client>>

(***************************************************************************)
(* Helpers of lib/prisma.ts.                                               *)
(***************************************************************************)
\* validMatches: archived = false, some non-CPU row of the player, exactly 2
\* non-CPU rows.
validMatchIds(db, p) ==
  {m \in DOMAIN db.matches :
     /\ ~db.matches[m].archived
     /\ \E i \in NonCpuRows(db) : /\ db.match_participants[i].match_id = m
                                  /\ db.match_participants[i].player = p
     /\ Cardinality({i \in NonCpuRows(db) :
                       db.match_participants[i].match_id = m}) = 2}

\* playerParticipants: the player's non-CPU rows in validMatchIds, orderBy
\* match_id desc.
playerParticipants(db, p) ==
  OrderByMatchIdDesc(db, {i \in NonCpuRows(db) :
                            /\ db.match_participants[i].player = p
                            /\ db.match_participants[i].match_id \in validMatchIds(db, p)})

PlayerStatsResult(db, p) ==
  LET o == playerParticipants(db, p)
      R == {o[k] : k \in 1..Len(o)}
  IN [id |-> p,
      total_wins |-> Cardinality({i \in R : db.match_participants[i].has_won}),
      total_losses |-> Cardinality({i \in R : ~db.match_participants[i].has_won}),
      total_kos |-> SumField(db, R, "total_kos"),
      total_falls |-> SumField(db, R, "total_falls"),
      total_sds |-> SumField(db, R, "total_sds"),
      current_win_streak |-> StreakLoop(db, o)]

getPlayerStats ==
  /\ \E p \in DOMAIN players :
       resp' = [op |-> "getPlayerStats", arg |-> p,
                rows |-> <<PlayerStatsResult(DB, p)>>]
  /\ UNCHANGED <<players, matches, match_participants, client>>

\* participants of getMostCommonCharacter: every row of the player (CPU rows
\* included) in a non-archived match.
MostCommonRows(db, p) ==
  {i \in DOMAIN db.match_participants :
     /\ db.match_participants[i].player = p
     /\ ~db.matches[db.match_participants[i].match_id].archived}

\* The results getMostCommonCharacter can return: findMany has no orderBy, so
\* the rows come in any order and any of the most frequent characters may be
\* the first key of characterCounts; null without rows.
MostCommonResults(db, p) ==
  LET R == MostCommonRows(db, p)
      cnt(c) == Cardinality({i \in R : db.match_participants[i].smash_character = c})
      used == {db.match_participants[i].smash_character : i \in R}
  IN IF R = {} THEN {Null}
     ELSE {c \in used : \A d \in used : cnt(c) >= cnt(d)}

getMostCommonCharacter ==
  /\ \E p \in DOMAIN players :
       \E c \in MostCommonResults(DB, p) :
         resp' = [op |-> "getMostCommonCharacter", arg |-> p,
                  rows |-> <<[id |-> p, main_character |-> c]>>]
  /\ UNCHANGED <<players, matches, match_participants, client>>

(***************************************************************************)
(* The dashboard component (SmashTournamentELO.tsx), the browser it runs   *)
(* in and the revalidation endpoint: values of their state.  Time is in    *)
(* milliseconds, on one clock for the browser and the server.              *)
(***************************************************************************)
\* null of a Date / a timer that is not set.
NoTime == -1

\* const CACHE_DURATION = 30000
CACHE_DURATION == 30000

\* setInterval(..., 30000): period of the refresh timer.
RefreshPeriod == 30000

\* setInterval(..., 1000): period of the countdown timer.
CountdownPeriod == 1000

\* useState<number>(30) / setCountdown(30)
CountdownStart == 30

\* playersCache of the component (useState(null)): no entry.
NoCache == [present |-> FALSE, hasData |-> FALSE, data |-> <<>>, timestamp |-> NoTime]

\* cacheData = { data, timestamp }
CacheData(data, timestamp) ==
  [present |-> TRUE, hasData |-> TRUE, data |-> data, timestamp |-> timestamp]

\* localStorage.getItem("playersCache") === null
NoItem == [kind |-> "none", value |-> NoCache]

\* JSON.stringify(cacheData): the text of the entry.
JSONstringify(v) == [kind |-> "json", value |-> v]

\* JSON.parse(text) throws unless the text is JSON.
JSONparseThrows(item) == item.kind # "json"

\* JSON.parse(text) of a text that is JSON.
JSONparse(item) == item.value

\* The filters of the matches page: selected players, selected characters,
\* only1v1.
NoFilter == [player |-> {}, character |-> {}, only1v1 |-> FALSE]

\* The component after construction (the useState initial values), before its
\* effects have run.
InitialState(defaultTab) ==
  [mounted |-> FALSE,
   defaultTab |-> defaultTab,
   players |-> <<>>,
   matches |-> <<>>,
   loading |-> TRUE,
   error |-> FALSE,
   lastUpdated |-> NoTime,
   refreshing |-> FALSE,
   countdown |-> CountdownStart,
   playersCache |-> NoCache,
   matchesPage |-> 1,
   loadingMoreMatches |-> FALSE,
   hasMoreMatches |-> TRUE,
   filter |-> NoFilter,
   autoRefreshDisabled |-> FALSE]

\* The browser of a first visit: empty localStorage, no timer, no request in
\* flight, the URL without search parameters.  fetchingFrom is the query of
\* the console's last "Fetching matches from:" line (no page: no such line).
FreshBrowser ==
  [now |-> 0,
   playersCacheItem |-> NoItem,
   refreshDue |-> NoTime,
   countdownDue |-> NoTime,
   playersInFlight |-> [foreground |-> 0, background |-> 0],
   matchesInFlight |-> {},
   fetchingFrom |-> [page |-> {}, limit |-> {}, player |-> {},
                    character |-> {}, only1v1 |-> FALSE],
   searchParams |-> NoFilter,
   loads |-> 0]

\* No revalidation request has been answered.
NoRevalidation == [revalidated |-> FALSE, now |-> NoTime, tags |-> {}]

\* No page of the dashboard is open.
NoClient ==
  /\ dash = InitialState("rankings")
  /\ browser = FreshBrowser
  /\ revalidation = NoRevalidation

(***************************************************************************)
(* GET /api/matches: the Prisma version (filters in the database) and the  *)
(* two Supabase versions (no filters; filters in memory).                  *)
(***************************************************************************)
\* players.name of the players 1, 2, 3 (unique).
Names == <<"Alpha", "Beta", "Gamma">>

\* parseInt(searchParams.get("page") || "1")
DefaultPage == 1

\* parseInt(searchParams.get("limit") || "20")
DefaultLimit == 20

\* A request's search parameters: page and limit are absent ({}) or one
\* positive numeral ({n}); player and character are the repeated values.
Query(page, limit, filter) ==
  [page |-> page, limit |-> limit, player |-> filter.player,
   character |-> filter.character, only1v1 |-> filter.only1v1]

ParsePage(q) == IF q.page = {} THEN DefaultPage ELSE CHOOSE n \in q.page : TRUE

ParseLimit(q) == IF q.limit = {} THEN DefaultLimit ELSE CHOOSE n \in q.limit : TRUE

\* BigInt(id) of a player parameter: throws unless the text is a numeral.
BigIntThrows(s) == s \notin {"1", "2", "3"}

BigInt(s) == CASE s = "1" -> 1 [] s = "2" -> 2 [] OTHER -> 3

\* All rows of match m.
RowsOfMatch(db, m) ==
  {i \in DOMAIN db.match_participants : db.match_participants[i].match_id = m}

\* The embedded players row of a participant: present iff the player exists.
HasPlayer(db, i) == db.match_participants[i].player \in DOMAIN db.players

\* One participant of the transformed answer; name is player_name.
Participant(db, i, name) ==
  [id |-> i,
   player |-> db.match_participants[i].player,
   player_name |-> name,
   smash_character |-> db.match_participants[i].smash_character,
   is_cpu |-> db.match_participants[i].is_cpu,
   total_kos |-> db.match_participants[i].total_kos,
   total_falls |-> db.match_participants[i].total_falls,
   total_sds |-> db.match_participants[i].total_sds,
   has_won |-> db.match_participants[i].has_won]

RECURSIVE CreatedAtDescOrders(_, _)
\* orderBy created_at desc over the matches S: every order the database may
\* return (matches of equal created_at come in any order).
CreatedAtDescOrders(db, S) ==
  IF S = {} THEN {<<>>}
  ELSE LET top == {m \in S : \A n \in S :
                     db.matches[m].created_at >= db.matches[n].created_at}
       IN UNION {{<<m>> \o t : t \in CreatedAtDescOrders(db, S \ {m})} : m \in top}

\* The page with one match too many: range(offset, offset + limit).
Page_oneMore(ord, offset, limit) ==
  SubSeq(ord, offset + 1,
         IF offset + limit + 1 < Len(ord) THEN offset + limit + 1 ELSE Len(ord))

\* skip: offset, take: limit / range(offset, offset + limit - 1).
Page(ord, offset, limit) ==
  SubSeq(ord, offset + 1,
         IF offset + limit < Len(ord) THEN offset + limit ELSE Len(ord))

\* The 200 answer: { matches, pagination: { page, limit, hasMore } }.
MatchesAnswer(q, ms) ==
  [status |-> 200, matches |-> ms,
   pagination |-> [page |-> ParsePage(q), limit |-> ParseLimit(q),
                   hasMore |-> Len(ms) > 0 /\ Len(ms) = ParseLimit(q)]]

\* The 500 answer: { error: "Failed to fetch matches" }.
MatchesError ==
  [status |-> 500, matches |-> <<>>,
   pagination |-> [page |-> 0, limit |-> 0, hasMore |-> FALSE]]

\* Prisma version: the ids the only1v1 raw queries select.
PrismaOneVOneMatchIds(db, q) ==
  {m \in DOMAIN db.matches :
     /\ ~db.matches[m].archived
     /\ \A s \in q.player :
          \E i \in RowsOfMatch(db, m) :
             /\ db.match_participants[i].player = BigInt(s)
             /\ ~db.match_participants[i].is_cpu
     /\ Cardinality({i \in RowsOfMatch(db, m) : ~db.match_participants[i].is_cpu}) = 2}

\* Prisma version: the matches the where conditions select.
PrismaWhere(db, q) ==
  {m \in DOMAIN db.matches :
     /\ ~db.matches[m].archived
     /\ q.only1v1 => m \in PrismaOneVOneMatchIds(db, q)
     /\ ~q.only1v1 =>
          \A s \in q.player :
             \E i \in RowsOfMatch(db, m) :
                /\ db.match_participants[i].player = BigInt(s)
                /\ ~db.match_participants[i].is_cpu
     /\ \A c \in q.character :
          \E i \in RowsOfMatch(db, m) : db.match_participants[i].smash_character = c}

\* transformedMatches of the Prisma version.
PrismaTransform(db, pg) ==
  [k \in 1..Len(pg) |->
     [id |-> pg[k], created_at |-> db.matches[pg[k]].created_at,
      participants |-> {Participant(db, i, Names[db.match_participants[i].player]) :
                          i \in RowsOfMatch(db, pg[k])}]]

\* The answers the Prisma version can give: BigInt of a parameter that is no
\* numeral throws, as does participant.players.name of a row without player;
\* both end in the catch block.
MatchesPrismaResults(db, q) ==
  IF \E s \in q.player : BigIntThrows(s) THEN {MatchesError}
  ELSE {IF \E k \in 1..Len(pg) : \E i \in RowsOfMatch(db, pg[k]) : ~HasPlayer(db, i)
        THEN MatchesError
        ELSE MatchesAnswer(q, PrismaTransform(db, pg)) :
          pg \in {Page(ord, (ParsePage(q) - 1) * ParseLimit(q), ParseLimit(q)) :
                    ord \in CreatedAtDescOrders(db, PrismaWhere(db, q))}}

\* transformedMatches of the Supabase versions: players?.name || "".
SupabaseTransform(db, pg) ==
  [k \in 1..Len(pg) |->
     [id |-> pg[k], created_at |-> db.matches[pg[k]].created_at,
      participants |-> {Participant(db, i,
                           IF HasPlayer(db, i)
                           THEN Names[db.match_participants[i].player] ELSE "") :
                          i \in RowsOfMatch(db, pg[k])}]]

\* First Supabase version: every match, no filter.
MatchesSupabaseResults(db, q) ==
  {MatchesAnswer(q, SupabaseTransform(db, pg)) :
     pg \in {Page(ord, (ParsePage(q) - 1) * ParseLimit(q), ParseLimit(q)) :
               ord \in CreatedAtDescOrders(db, DOMAIN db.matches)}}

\* Second Supabase version, filteredMatches: all named players, all characters,
\* and for only1v1 exactly 2 participant rows.
filteredMatches(db, q) ==
  {m \in DOMAIN db.matches :
     /\ \A s \in q.player :
          \E i \in RowsOfMatch(db, m) :
             HasPlayer(db, i) /\ Names[db.match_participants[i].player] = s
     /\ \A c \in q.character :
          \E i \in RowsOfMatch(db, m) : db.match_participants[i].smash_character = c
     /\ q.only1v1 => Cardinality(RowsOfMatch(db, m)) = 2}

\* Second Supabase version: the filtered ids (when a filter is given), then the
\* main query.
MatchesFilteredResults(db, q) ==
  LET filtered == q.player # {} \/ q.character # {} \/ q.only1v1
      ids == IF filtered THEN filteredMatches(db, q) ELSE DOMAIN db.matches
  IN {MatchesAnswer(q, SupabaseTransform(db, pg)) :
        pg \in {Page(ord, (ParsePage(q) - 1) * ParseLimit(q), ParseLimit(q)) :
                  ord \in CreatedAtDescOrders(db, ids)}}

\* The answers version op of GET /api/matches can give to the query q.
MatchesResults(db, op, q) ==
  CASE op = "GET_matches_prisma" -> MatchesPrismaResults(db, q)
    [] op = "GET_matches_supabase" -> MatchesSupabaseResults(db, q)
    [] OTHER -> MatchesFilteredResults(db, q)

\* The answer of GET /api/matches as the last response.
MatchesResp(op, q, a) ==
  [op |-> op, arg |-> q, rows |-> a.matches, status |-> a.status,
   pagination |-> a.pagination]

\* The queries the model sends: without page and limit, or with a page in
\* 1..MaxPage and a limit in 1..MaxLimit.
MatchQueries(filters) ==
  {Query(pl[1], pl[2], f) :
     pl \in {<<{}, {}>>} \cup {<<{n}, {l}>> : n \in 1..MaxPage, l \in 1..MaxLimit},
     f \in filters}

\* Filters of the listing requests: none, a player by id or by name, a
\* character, only1v1, and two players by name with a character.
ListFilters ==
  {NoFilter,
   [NoFilter EXCEPT !.player = {"2"}],
   [NoFilter EXCEPT !.player = {"Beta"}],
   [NoFilter EXCEPT !.character = {"ZELDA"}],
   [NoFilter EXCEPT !.only1v1 = TRUE],
   [NoFilter EXCEPT !.player = {"Alpha", "Beta"}, !.character = {"ZELDA"}]}

\* GET of one version of /api/matches: one read of the store, nothing written.
GET_matches(op) ==
  /\ \E q \in MatchQueries(ListFilters) :
       \E a \in MatchesResults(DB, op, q) :
         resp' = MatchesResp(op, q, a)
  /\ UNCHANGED <<players, matches, match_participants, client>>

GET_matches_prisma == GET_matches("GET_matches_prisma")

GET_matches_supabase == GET_matches("GET_matches_supabase")

GET_matches_filtered == GET_matches("GET_matches_filtered")

(***************************************************************************)
(* Specification over mixed matches: one to three humans, CPU rows,        *)
(* archived matches.                                                       *)
(***************************************************************************)
\* Players of the mixed-match store.
MixPlayers == (1 :> PlayerRow(1300, TRUE, 3)) @@ (2 :> PlayerRow(1250, TRUE, 1))
              @@ (3 :> PlayerRow(1200, FALSE, 0))

\* Participant rows of one match: player 1 (character c, winner iff w)
\* alone with a CPU, against player 2, against player 2 with a CPU beside
\* them, or against players 2 and 3.
MixRows(c, w) ==
  {<<Row(0, 1, c, FALSE, w), Row(0, 3, "ZELDA", TRUE, ~w)>>,
   <<Row(0, 1, c, FALSE, w), Row(0, 2, "MARIO", FALSE, ~w)>>,
   <<Row(0, 1, c, FALSE, w), Row(0, 2, "MARIO", FALSE, ~w),
     Row(0, 3, "ZELDA", TRUE, FALSE)>>,
   <<Row(0, 1, c, FALSE, w), Row(0, 2, "MARIO", FALSE, ~w),
     Row(0, 3, "ZELDA", FALSE, FALSE)>>}

Init ==
  /\ players = MixPlayers
  /\ matches = <<>>
  /\ match_participants = <<>>
  /\ resp = NoResp
  /\ NoClient

\* A match is recorded; created_at is the insertion time (DEFAULT
\* CURRENT_TIMESTAMP), which grows with the id.
RecordMixedMatch ==
  /\ Cardinality(DOMAIN matches) < MaxMatches
  /\ \E c \in {"FOX", "MARIO"}, w \in BOOLEAN :
       \E rows \in MixRows(c, w) :
         RecordMatch(Cardinality(DOMAIN matches) + 1, rows)

Archive == \E m \in DOMAIN matches : ArchiveMatch(m)

Next ==
  \/ RecordMixedMatch
  \/ Archive
  \/ GET_sql
  \/ GET_sql_old
  \/ GET_prisma
  \/ getPlayerStats
  \/ getMostCommonCharacter

Spec == Init /\ [][Next]_vars

(***************************************************************************)
(* Specification over 1v1 histories: players 1 and 2 play each other, the  *)
(* creation time of a match is set by the writer (the seeding script draws *)
(* it at random), so it may repeat and may run against the ids.            *)
(***************************************************************************)
DuelPlayers == (1 :> PlayerRow(1300, TRUE, 3)) @@ (2 :> PlayerRow(1200, FALSE, 0))

InitStreak ==
  /\ players = DuelPlayers
  /\ matches = <<>>
  /\ match_participants = <<>>
  /\ resp = NoResp
  /\ NoClient

\* seedData: a match with created_at t and two human rows, the winner first.
RecordDuel ==
  /\ Cardinality(DOMAIN matches) < MaxDuels
  /\ \E t \in 1..MaxTime, w \in {1, 2} :
       RecordMatch(t, <<Row(0, w, "FOX", FALSE, TRUE),
                        Row(0, 3 - w, "MARIO", FALSE, FALSE)>>)

NextStreak ==
  \/ RecordDuel
  \/ Archive
  \/ GET_sql
  \/ GET_sql_old
  \/ GET_prisma
  \/ getPlayerStats

SpecStreak == InitStreak /\ [][NextStreak]_vars

(***************************************************************************)
(* Specification over a full leaderboard: more players than the top-10     *)
(* slice holds, two of them with the same elo at the cut, stored ranking   *)
(* columns as the seeding script or an earlier computation left them.      *)
(***************************************************************************)
\* elo of player i: descending with the id, players 10 and 11 share one value.
TopElo(i) == IF i = 11 THEN 1000 ELSE 2000 - 100 * i

\* The players table in which exactly the players U are stored as unranked.
TopPlayers(U) ==
  [i \in 1..NumTopPlayers |->
     PlayerRow(TopElo(i), i \notin U, IF i \in U THEN 0 ELSE 3)]

\* Any of player 5 (high in the table), player 10 (at the cut) and player 12
\* (below it) may be stored as unranked.
InitTop ==
  /\ \E U \in SUBSET {5, 10, 12} : players = TopPlayers(U)
  /\ matches = <<>>
  /\ match_participants = <<>>
  /\ resp = NoResp
  /\ NoClient

\* A 1v1 between player 1 and one of the players 2, 10, 11, 12.
RecordTopDuel ==
  /\ Cardinality(DOMAIN matches) < MaxTopDuels
  /\ \E b \in {2, 10, 11, 12} :
       RecordMatch(Cardinality(DOMAIN matches) + 1,
                   <<Row(0, 1, "FOX", FALSE, TRUE), Row(0, b, "MARIO", FALSE, FALSE)>>)

NextTop ==
  \/ RecordTopDuel
  \/ GET_sql
  \/ GET_sql_old
  \/ GET_prisma

SpecTop == InitTop /\ [][NextTop]_vars

(***************************************************************************)
(* Specification over a match list: matches of one to two humans, with CPU *)
(* rows, archived matches, equal creation times, and participant rows      *)
(* whose player row is missing.                                            *)
(***************************************************************************)
\* A player id no players row has.
MissingPlayer == 9

\* Participant rows of one listed match: player 1 against player 2, player 1
\* with a CPU, player 1 and player 2 with a CPU beside them, or player 1
\* against a player whose row is missing.
ListRows ==
  {<<Row(0, 1, "FOX", FALSE, TRUE), Row(0, 2, "MARIO", FALSE, FALSE)>>,
   <<Row(0, 1, "FOX", FALSE, TRUE), Row(0, 3, "ZELDA", TRUE, FALSE)>>,
   <<Row(0, 1, "FOX", FALSE, TRUE), Row(0, 2, "MARIO", FALSE, FALSE),
     Row(0, 3, "ZELDA", TRUE, FALSE)>>,
   <<Row(0, 1, "FOX", FALSE, TRUE), Row(0, MissingPlayer, "MARIO", FALSE, FALSE)>>}

InitMatches ==
  /\ players = MixPlayers
  /\ matches = <<>>
  /\ match_participants = <<>>
  /\ resp = NoResp
  /\ NoClient

RecordListedMatch ==
  /\ Cardinality(DOMAIN matches) < MaxListed
  /\ \E t \in 1..MaxTime, rows \in ListRows : RecordMatch(t, rows)

NextMatches ==
  \/ RecordListedMatch
  \/ Archive
  \/ GET_matches_prisma
  \/ GET_matches_supabase
  \/ GET_matches_filtered
  \/ GET_sql

SpecMatches == InitMatches /\ [][NextMatches]_vars

(***************************************************************************)
(* Vocabulary of the properties.                                           *)
(***************************************************************************)
\* The store without the matches X and without their participant rows.
WithoutMatches(db, X) ==
  [db EXCEPT
     !.matches = [m \in DOMAIN db.matches \ X |-> db.matches[m]],
     !.match_participants =
        [i \in {j \in DOMAIN db.match_participants :
                  db.match_participants[j].match_id \notin X} |->
           db.match_participants[i]]]

\* The bodies operation op (with argument arg) can answer over the store db.
Results(db, op, arg) ==
  CASE op = "GET_sql" ->
         {SqlBody(db, ord) : ord \in EloDescOrders(db, DOMAIN db.players)}
    [] op = "GET_sql_old" ->
         {SqlOldBody(db, ord) : ord \in EloDescOrders(db, DOMAIN db.players)}
    [] op = "GET_prisma" ->
         {PrismaBody(db, ord) : ord \in EloDescOrders(db, DOMAIN db.players)}
    [] op = "getPlayerStats" -> {<<PlayerStatsResult(db, arg)>>}
    [] op = "getMostCommonCharacter" ->
         {<<[id |-> arg, main_character |-> c]>> : c \in MostCommonResults(db, arg)}
    [] OTHER -> {<<>>}

ArchivedMatches(db) == {m \in DOMAIN db.matches : db.matches[m].archived}

\* Number of non-CPU participant rows of match m.
HumanCount(db, m) ==
  Cardinality({i \in DOMAIN db.match_participants :
                 /\ db.match_participants[i].match_id = m
                 /\ ~db.match_participants[i].is_cpu})

NotOneVOne(db) == {m \in DOMAIN db.matches : HumanCount(db, m) # 2}

\* Eligible match of the data model: not archived, exactly two non-CPU rows.
EligibleMatches(db) ==
  {m \in DOMAIN db.matches : ~db.matches[m].archived /\ HumanCount(db, m) = 2}

\* The player's non-CPU rows in eligible matches.
EligibleRows(db, p) ==
  {i \in DOMAIN db.match_participants :
     /\ db.match_participants[i].player = p
     /\ ~db.match_participants[i].is_cpu
     /\ db.match_participants[i].match_id \in EligibleMatches(db)}

StandingsOps == {"GET_sql", "GET_sql_old", "GET_prisma"}

\* The top-10-played count a standings record reports: the SQL statements
\* name the field top_ten_played, the Prisma version top_10_players_played.
ReportedCount(r) ==
  IF "top_ten_played" \in DOMAIN r THEN r.top_ten_played
  ELSE r.top_10_players_played

\* C1: an archived match contributes to no aggregate: every answer is one the
\* operation gives over the store without the archived matches and their rows.
C1_ArchivedExcluded ==
  resp.op # "none" =>
    resp.rows \in Results(WithoutMatches(DB, ArchivedMatches(DB)), resp.op, resp.arg)

\* C2: a match whose number of non-CPU participants is not 2 contributes to
\* no aggregate: every answer is one the operation gives over the store
\* without those matches and their rows.
C2_NonOneVOneExcluded ==
  resp.op # "none" =>
    resp.rows \in Results(WithoutMatches(DB, NotOneVOne(DB)), resp.op, resp.arg)

\* The rows of the answer that carry field f.
RowsWith(f) == {k \in 1..Len(resp.rows) : f \in DOMAIN resp.rows[k]}

\* The player's eligible rows, most recent first: creation time descending,
\* then match id descending.
RecencyHistory(db, p) == OrderByCreatedAt(db, EligibleRows(db, p))

RECURSIVE WinPrefix(_, _)
\* Length of the longest prefix of wins of the row sequence o.
WinPrefix(db, o) ==
  IF o = <<>> \/ ~db.match_participants[Head(o)].has_won THEN 0
  ELSE 1 + WinPrefix(db, Tail(o))

\* Creation time never runs against the match ids, so that "creation time
\* descending, then id descending" and "id descending" are the same order.
ClockAgreesWithIds(db) ==
  \A m, n \in DOMAIN db.matches :
     m < n => db.matches[m].created_at <= db.matches[n].created_at

\* C6: current_win_streak is the length of the longest prefix of wins of the
\* eligible history, most recent first (stated for the SQL statements, over
\* stores where creation time and id agree on what "most recent" is).
C6_StreakIsWinPrefix ==
  (resp.op \in {"GET_sql", "GET_sql_old"} /\ ClockAgreesWithIds(DB)) =>
    \A k \in RowsWith("current_win_streak") :
       resp.rows[k].current_win_streak
         = WinPrefix(DB, RecencyHistory(DB, resp.rows[k].id))

\* C7: the recency order of the win streak is creation time descending, then
\* match id descending (stated over stores without archived matches, for the
\* operations that order the history).
C7_RecencyByCreatedAt ==
  (resp.op \in {"GET_sql", "GET_prisma", "getPlayerStats"}
     /\ ArchivedMatches(DB) = {}) =>
    \A k \in RowsWith("current_win_streak") :
       resp.rows[k].current_win_streak
         = WinPrefix(DB, RecencyHistory(DB, resp.rows[k].id))

\* C8: a player whose most recent eligible match (creation time descending,
\* then id descending) is a loss has current_win_streak = 0.
C8_LossFirstGivesZero ==
  resp.op \in {"GET_sql", "GET_sql_old"} =>
    \A k \in RowsWith("current_win_streak") :
       LET h == RecencyHistory(DB, resp.rows[k].id)
       IN (h # <<>> /\ ~match_participants[Head(h)].has_won)
            => resp.rows[k].current_win_streak = 0

\* C9: total_wins / total_losses count the player's eligible rows won / lost,
\* total_kos, total_falls, total_sds sum the counters of exactly those rows,
\* and wins + losses is the number of eligible matches the player took part in.
C9_TotalsOverEligibleRows ==
  resp.op \in StandingsOps \cup {"getPlayerStats"} =>
    \A k \in RowsWith("total_wins") :
       LET r == resp.rows[k]
           R == EligibleRows(DB, r.id)
       IN /\ r.total_wins = Cardinality({i \in R : match_participants[i].has_won})
          /\ r.total_losses = Cardinality({i \in R : ~match_participants[i].has_won})
          /\ r.total_kos = SumField(DB, R, "total_kos")
          /\ r.total_falls = SumField(DB, R, "total_falls")
          /\ r.total_sds = SumField(DB, R, "total_sds")
          /\ r.total_wins + r.total_losses
               = Cardinality({match_participants[i].match_id : i \in R})

\* Number of the player's eligible rows played with character c.
EligibleCharCount(db, p, c) ==
  Cardinality({i \in EligibleRows(db, p) :
                 db.match_participants[i].smash_character = c})

\* C10: for a player with eligible rows, main_character has the highest count
\* among the eligible rows and is the smallest name among the characters with
\* that count (stated over stores in which every match is eligible).
C10_MainCharacterMode ==
  (resp.op # "none" /\ ArchivedMatches(DB) = {} /\ NotOneVOne(DB) = {}) =>
    \A k \in RowsWith("main_character") :
       LET p == resp.rows[k].id
           c == resp.rows[k].main_character
           used == {match_participants[i].smash_character : i \in EligibleRows(DB, p)}
       IN used # {} =>
            /\ c \in used
            /\ \A d \in used \ {c} :
                  \/ EligibleCharCount(DB, p, c) > EligibleCharCount(DB, p, d)
                  \/ /\ EligibleCharCount(DB, p, c) = EligibleCharCount(DB, p, d)
                     /\ CharLess(c, d)

\* The players of the answer, in the order of its records.
RespOrder == [k \in 1..Len(resp.rows) |-> resp.rows[k].id]

\* The other human participants of the player's eligible matches.
EligibleOpponents(db, p) ==
  {db.match_participants[j].player :
     j \in {x \in DOMAIN db.match_participants :
              /\ ~db.match_participants[x].is_cpu
              /\ db.match_participants[x].player # p
              /\ \E i \in EligibleRows(db, p) :
                   db.match_participants[i].match_id
                     = db.match_participants[x].match_id}}

\* The other human participants of the player's matches with exactly two
\* non-CPU participants, archived or not.
TwoHumanOpponents(db, p) ==
  {db.match_participants[j].player :
     j \in {x \in DOMAIN db.match_participants :
              /\ ~db.match_participants[x].is_cpu
              /\ db.match_participants[x].player # p
              /\ HumanCount(db, db.match_participants[x].match_id) = 2
              /\ \E i \in DOMAIN db.match_participants :
                   /\ db.match_participants[i].player = p
                   /\ ~db.match_participants[i].is_cpu
                   /\ db.match_participants[i].match_id
                        = db.match_participants[x].match_id}}

\* The 10 highest-rated of all players, in the rating order ord.
TopNByRating(ord) == {ord[k] : k \in {x \in 1..Len(ord) : x <= 10}}

\* The first 10 of the players stored as is_ranked, in the rating order ord.
RankedTopN(db, ord) ==
  {ord[k] : k \in {x \in 1..Len(ord) :
                     /\ db.players[ord[x]].is_ranked
                     /\ Cardinality({y \in 1..x : db.players[ord[y]].is_ranked}) <= 10}}

C5_DistinctTopOpponentsFaced ==
  resp.op = "GET_prisma" =>
    \A k \in 1..Len(resp.rows) :
       ReportedCount(resp.rows[k])
         = Cardinality((EligibleOpponents(DB, resp.rows[k].id)
                          \cap RankedTopN(DB, RespOrder)) \ {resp.rows[k].id})

\* C11: every player appears in the standings, and a player without eligible
\* rows has all totals 0, main_character null, win streak 0, a reported
\* top-10-played count of 0 and is_ranked = false.
C11_ZeroMatchPlayerDefaults ==
  resp.op \in StandingsOps =>
    /\ {resp.rows[k].id : k \in 1..Len(resp.rows)} = DOMAIN players
    /\ \A k \in 1..Len(resp.rows) :
          LET r == resp.rows[k]
          IN EligibleRows(DB, r.id) = {} =>
               /\ r.total_wins = 0 /\ r.total_losses = 0
               /\ r.total_kos = 0 /\ r.total_falls = 0 /\ r.total_sds = 0
               /\ r.main_character = Null
               /\ r.current_win_streak = 0
               /\ ReportedCount(r) = 0
               /\ ~r.is_ranked

\* Number of players whose stored is_ranked flag is true.
StoredRankedCount(db) ==
  Cardinality({p \in DOMAIN db.players : db.players[p].is_ranked})

SortedByEloDesc(rows) ==
  \A j, k \in 1..Len(rows) : j < k => rows[j].elo >= rows[k].elo

\* C13: every standings answer is sorted by rating descending, and a second
\* run of the same computation over the unchanged store gives the same answer,
\* the order of the records included.
C13_SortedAndRepeatable ==
  [][/\ resp'.op \in StandingsOps => SortedByEloDesc(resp'.rows)
     /\ (/\ resp.op \in StandingsOps
         /\ resp'.op = resp.op
         /\ UNCHANGED <<players, matches, match_participants>>)
        => resp'.rows = resp.rows]_vars

MatchesOps == {"GET_matches_prisma", "GET_matches_supabase", "GET_matches_filtered"}

\* C20: a successful GET /api/matches?page=p&limit=l answers at most l
\* matches, ordered by creation time descending, with a pagination record
\* that echoes p and l and carries a hasMore flag.
C20_MatchesPageShape ==
  (resp.op \in MatchesOps /\ resp.status = 200) =>
    \A p \in resp.arg.page, l \in resp.arg.limit :
       /\ Len(resp.rows) <= l
       /\ \A j, k \in 1..Len(resp.rows) :
             j < k => resp.rows[j].created_at >= resp.rows[k].created_at
       /\ resp.pagination.page = p
       /\ resp.pagination.limit = l
       /\ resp.pagination.hasMore \in BOOLEAN

\* Witness of C20: a successful answer to page=1&limit=2 holding two matches
\* of different creation times, and one to page=2&limit=1 holding one match.
C20_Witness ==
  /\ resp.op \in MatchesOps
  /\ resp.status = 200
  /\ \/ /\ resp.arg.page = {1} /\ resp.arg.limit = {2}
        /\ Len(resp.rows) = 2
        /\ resp.rows[1].created_at > resp.rows[2].created_at
     \/ /\ resp.arg.page = {2} /\ resp.arg.limit = {1}
        /\ Len(resp.rows) = 1
        /\ Cardinality(DOMAIN matches) = 2

\* Participant rows whose player has no players row.
OrphanRows(db) ==
  {i \in DOMAIN db.match_participants :
     db.match_participants[i].player \notin DOMAIN db.players}

\* The last answer is a success computed from a participant row without
\* player: a standings answer over a store holding one, or a match list that
\* returns its match.
AnsweredOverOrphanRow ==
  IF resp.op \in MatchesOps
  THEN /\ resp.status = 200
       /\ \E k \in 1..Len(resp.rows) :
            RowsOfMatch(DB, resp.rows[k].id) \cap OrphanRows(DB) # {}
  ELSE resp.op \in StandingsOps /\ OrphanRows(DB) # {}

C15_StandingsReadOnly ==
  [][resp'.op \in StandingsOps
       => UNCHANGED <<players, matches, match_participants>>]_vars

\* Witness of C15: a standings request answered over a store with matches in
\* which a player's computed classification differs from the stored flag.
C15_Witness ==
  /\ resp.op = "GET_prisma"
  /\ DOMAIN matches # {}
  /\ \E k \in 1..Len(resp.rows) :
       resp.rows[k].is_ranked # players[resp.rows[k].id].is_ranked

(***************************************************************************)
(* The dashboard component (SmashTournamentELO): the lists it derives from *)
(* the players it holds.                                                   *)
(***************************************************************************)
\* Array.prototype.sort(compareFn): stable; a negative result puts a first,
\* a result of 0 keeps the order of the array.  compareFn[i, j] is the
\* result of the comparator for the elements i and j of the array.
ArraySort(a, compareFn) ==
  LET n == Len(a)
      at == CHOOSE f \in [1..n -> 1..n] :
              \A i, j \in 1..n :
                 i < j => \/ compareFn[f[i], f[j]] < 0
                          \/ /\ compareFn[f[i], f[j]] = 0
                             /\ f[i] < f[j]
  IN [k \in 1..n |-> a[at[k]]]

\* (a, b) => b.elo - a.elo
CompareElo(a, b) == b.elo - a.elo

\* (a, b) => b.top_10_players_played - a.top_10_players_played: NaN when a
\* record has no such field, and sort treats a NaN result as +0.
CompareTop10(a, b) ==
  IF "top_10_players_played" \in DOMAIN a /\ "top_10_players_played" \in DOMAIN b
  THEN b.top_10_players_played - a.top_10_players_played
  ELSE 0

\* const sortedPlayers = [...players].sort((a, b) => b.elo - a.elo)
sortedPlayers(ps) ==
  ArraySort(ps, [i, j \in 1..Len(ps) |-> CompareElo(ps[i], ps[j])])

\* const rankedPlayers = sortedPlayers.filter((player) => player.is_ranked)
rankedPlayers(ps) == SelectSeq(sortedPlayers(ps), LAMBDA p : p.is_ranked)

\* const unrankedPlayers = sortedPlayers.filter((player) => !player.is_ranked)
unrankedPlayers(ps) == SelectSeq(sortedPlayers(ps), LAMBDA p : ~p.is_ranked)

\* const sortedUnrankedPlayers = [...unrankedPlayers].sort(
\*   (a, b) => b.top_10_players_played - a.top_10_players_played)
sortedUnrankedPlayers(ps) ==
  LET u == unrankedPlayers(ps)
  IN ArraySort(u, [i, j \in 1..Len(u) |-> CompareTop10(u[i], u[j])])

\* playersWithMatches: data.map((player) => ({ ...player,
\*   matches: (player.total_wins || 0) + (player.total_losses || 0) }))
playersWithMatches(data) ==
  [k \in 1..Len(data) |->
     [f \in DOMAIN data[k] \cup {"matches"} |->
        IF f = "matches" THEN data[k].total_wins + data[k].total_losses
        ELSE data[k][f]]]

(***************************************************************************)
(* The dashboard component: its players cache, its effect, its timers and  *)
(* its requests.  A page is the component mounted with a defaultTab.  The  *)
(* refs the timers read (currentPlayerFilter, currentAutoRefreshDisabled,  *)
(* ...) are copied from the state after every render and are read here as  *)
(* the state; currentActiveTab.current is activeTab, which is defaultTab   *)
(* for the life of the component.                                          *)
(***************************************************************************)
\* Latest time of a behaviour, in milliseconds.
MaxNow == 31000

\* On the rankings page time is followed for two refresh periods, so that a
\* refresh callback can run while the request of the one before is in flight.
MaxNowRankings == 60000

\* Page loads of a behaviour.
MaxLoads == 2

\* A visitor acts, and an answer arrives, within this time after a page load
\* at time 0 or after a multiple of the refresh period; between these times
\* only the intervals run.
EventWindow == 1000

Eventful(now) == now % RefreshPeriod <= EventWindow

\* /api/players requests of fetchPlayers() awaiting their answers.
MaxInFlight == 1

\* params.append("limit", "20")
PageSize == 20

\* The pages: "tiers" and "players" fetch as "rankings" does.
Tabs == {"rankings", "matches"}

\* Filters a visitor selects or a URL carries.
PageFilters == {NoFilter, [NoFilter EXCEPT !.player = {"Beta"}]}

\* A text that is not JSON.
GarbageItem == [kind |-> "text", value |-> NoCache]

\* JSON.parse("{}"): an entry without data and without timestamp.
EmptyObject == [present |-> TRUE, hasData |-> FALSE, data |-> <<>>, timestamp |-> NoTime]

\* The freshness test with a strict comparison.
CacheFresh_strict(timestamp, now) ==
  timestamp # NoTime /\ now - timestamp < CACHE_DURATION

\* Date.now() - timestamp <= CACHE_DURATION; the difference is NaN, and the
\* comparison false, when the entry has no timestamp.
CacheFresh(timestamp, now) ==
  timestamp # NoTime /\ now - timestamp <= CACHE_DURATION

\* checkFreshData(): whether a request is needed, and the entry the component
\* holds afterwards (setPlayersCache(parsedCache)).
checkFreshData(playersCache, item, now) ==
  IF playersCache.present /\ CacheFresh(playersCache.timestamp, now)
  THEN [needsFetch |-> FALSE, playersCache |-> playersCache]
  ELSE IF /\ item.kind # "none"
          /\ ~JSONparseThrows(item)
          /\ CacheFresh(JSONparse(item).timestamp, now)
  THEN [needsFetch |-> FALSE, playersCache |-> JSONparse(item)]
  ELSE [needsFetch |-> TRUE, playersCache |-> playersCache]

\* fetchPlayers(isBackgroundRefresh) up to its await.
fetchPlayersStart(d, isBackgroundRefresh) ==
  [d EXCEPT !.loading = IF isBackgroundRefresh THEN @ ELSE TRUE,
            !.refreshing = IF isBackgroundRefresh THEN TRUE ELSE @,
            !.error = FALSE]

\* The players part of the effect: the component afterwards, and whether
\* fetchPlayers() was called.
PlayersEffect(d, b) ==
  LET c == checkFreshData(d.playersCache, b.playersCacheItem, b.now)
      cacheToUse ==
        IF d.playersCache.present THEN d.playersCache
        ELSE IF b.playersCacheItem.kind = "none" THEN EmptyObject
        ELSE JSONparse(b.playersCacheItem)
  IN IF c.needsFetch
     THEN [dash |-> fetchPlayersStart(d, FALSE), fetch |-> TRUE]
     ELSE IF cacheToUse.hasData
     THEN [dash |-> [d EXCEPT !.players = cacheToUse.data,
                              !.loading = FALSE,
                              !.lastUpdated = cacheToUse.timestamp,
                              !.playersCache = cacheToUse],
           fetch |-> FALSE]
     ELSE [dash |-> fetchPlayersStart([d EXCEPT !.playersCache = c.playersCache],
                                      FALSE),
           fetch |-> TRUE]

\* A call of fetchMatches(page, append, filters) awaiting its answer;
\* nextPage is the page loadMoreMatches sets afterwards, 0 for other callers.
MatchesRequest(page, append, filter, nextPage) ==
  [q |-> Query({page}, {PageSize}, filter), append |-> append,
   nextPage |-> nextPage]

\* The effect with dependencies [defaultTab, searchParams]: the players
\* cache check, the first page of matches on the matches page, and the two
\* intervals.
Effect(d, b) ==
  LET pe == PlayersEffect(d, b)
  IN [dash |-> pe.dash,
      browser |->
        [b EXCEPT !.playersInFlight.foreground = @ + (IF pe.fetch THEN 1 ELSE 0),
                  !.matchesInFlight =
                     IF d.defaultTab = "matches"
                     THEN @ \cup {MatchesRequest(1, FALSE, b.searchParams, 0)}
                     ELSE @,
                  !.fetchingFrom =
                     IF d.defaultTab = "matches"
                     THEN MatchesRequest(1, FALSE, b.searchParams, 0).q
                     ELSE @,
                  !.refreshDue = b.now + RefreshPeriod,
                  !.countdownDue = b.now + CountdownPeriod]]

\* A page is loaded: the component is constructed, its filters are taken
\* from the URL, and its effect runs.  Requests of the page before are
\* never processed and its intervals are gone; localStorage stays.
LoadPage(tab) ==
  /\ browser.loads < MaxLoads
  /\ Eventful(browser.now)
  /\ \E sp \in PageFilters :
       /\ tab # "matches" => sp = NoFilter
       /\ LET d == [InitialState(tab) EXCEPT !.mounted = TRUE, !.filter = sp]
              b == [browser EXCEPT
                      !.playersInFlight = [foreground |-> 0, background |-> 0],
                      !.matchesInFlight = {},
                      !.fetchingFrom = FreshBrowser.fetchingFrom,
                      !.searchParams = sp,
                      !.loads = @ + 1]
          IN /\ dash' = Effect(d, b).dash
             /\ browser' = Effect(d, b).browser
  /\ UNCHANGED <<players, matches, match_participants, resp, revalidation>>

\* The visitor's first page.
OpenPage ==
  /\ browser.loads = 0
  /\ \E tab \in Tabs : LoadPage(tab)

\* The rankings page is loaded.
LoadRankings == LoadPage("rankings")

\* A /api/players request is answered with 200 by one of the versions of
\* the handler; the answer is delivered to the page.  localStorage.setItem
\* may throw.
PlayersResponse ==
  /\ dash.mounted
  /\ Eventful(browser.now)
  /\ \E kind \in {"foreground", "background"}, op \in StandingsOps :
       /\ browser.playersInFlight[kind] > 0
       /\ \E data \in Results(DB, op, 0), stored \in BOOLEAN :
            LET cacheData == CacheData(playersWithMatches(data), browser.now)
            IN /\ dash' = [dash EXCEPT
                             !.players = cacheData.data,
                             !.lastUpdated = browser.now,
                             !.playersCache = cacheData,
                             !.loading = IF kind = "foreground" THEN FALSE ELSE @,
                             !.refreshing = IF kind = "background" THEN FALSE ELSE @]
               /\ browser' = [browser EXCEPT
                                !.playersInFlight[kind] = @ - 1,
                                !.playersCacheItem =
                                   IF stored THEN JSONstringify(cacheData) ELSE @]
  /\ UNCHANGED <<players, matches, match_participants, resp, revalidation>>

\* A /api/players request fails (no answer, or !response.ok).
PlayersFail ==
  /\ dash.mounted
  /\ Eventful(browser.now)
  /\ \E kind \in {"foreground", "background"} :
       /\ browser.playersInFlight[kind] > 0
       /\ dash' = [dash EXCEPT
                     !.error = TRUE,
                     !.loading = IF kind = "foreground" THEN FALSE ELSE @,
                     !.refreshing = IF kind = "background" THEN FALSE ELSE @]
       /\ browser' = [browser EXCEPT !.playersInFlight[kind] = @ - 1]
  /\ UNCHANGED <<players, matches, match_participants, resp, revalidation>>

\* Refresh and countdown never pause.
RefreshSkipped_never(defaultTab, autoRefreshDisabled) ==
  FALSE

\* Refresh and countdown do nothing on this page.
RefreshSkipped_onMatches(defaultTab, autoRefreshDisabled) ==
  defaultTab = "matches"

\* defaultTab === "matches" && currentAutoRefreshDisabled.current
RefreshSkipped(defaultTab, autoRefreshDisabled) ==
  defaultTab = "matches" /\ autoRefreshDisabled

\* The callback of refreshInterval.
RefreshTick ==
  /\ dash.mounted
  /\ browser.refreshDue = browser.now
  /\ IF RefreshSkipped(dash.defaultTab, dash.autoRefreshDisabled)
     THEN /\ dash' = dash
          /\ browser' = [browser EXCEPT !.refreshDue = @ + RefreshPeriod]
     ELSE /\ dash' = [fetchPlayersStart(dash, TRUE) EXCEPT
                        !.matchesPage = IF dash.defaultTab = "matches" THEN 1 ELSE @,
                        !.countdown = CountdownStart]
          /\ browser' = [browser EXCEPT
                           !.refreshDue = @ + RefreshPeriod,
                           !.playersInFlight.background = @ + 1,
                           !.matchesInFlight =
                              IF dash.defaultTab = "matches"
                              THEN @ \cup {MatchesRequest(1, FALSE, dash.filter, 0)}
                              ELSE @,
                           !.fetchingFrom =
                              IF dash.defaultTab = "matches"
                              THEN MatchesRequest(1, FALSE, dash.filter, 0).q
                              ELSE @]
  /\ UNCHANGED <<players, matches, match_participants, resp, revalidation>>

\* The callback of countdownInterval.
CountdownTick ==
  /\ dash.mounted
  /\ browser.countdownDue = browser.now
  /\ dash' = IF RefreshSkipped(dash.defaultTab, dash.autoRefreshDisabled)
             THEN dash
             ELSE [dash EXCEPT !.countdown = IF @ <= 1 THEN CountdownStart ELSE @ - 1]
  /\ browser' = [browser EXCEPT !.countdownDue = @ + CountdownPeriod]
  /\ UNCHANGED <<players, matches, match_participants, resp, revalidation>>

\* Time passes by one countdown period; a callback that is due runs first.
Advance ==
  /\ dash.mounted
  /\ browser.now + CountdownPeriod <=
       (IF dash.defaultTab = "rankings" THEN MaxNowRankings ELSE MaxNow)
  /\ browser.refreshDue > browser.now
  /\ browser.countdownDue > browser.now
  /\ browser' = [browser EXCEPT !.now = @ + CountdownPeriod]
  /\ UNCHANGED <<players, matches, match_participants, resp, dash, revalidation>>

\* A /api/matches request is answered by one of the versions of the handler
\* and fetchMatches goes on after its await; an answer that is not ok is
\* caught.  After fetchMatches, loadMoreMatches sets the page it asked for.
MatchesResponse ==
  /\ dash.mounted
  /\ Eventful(browser.now)
  /\ \E r \in browser.matchesInFlight, op \in MatchesOps :
       \E a \in MatchesResults(DB, op, r.q) :
         LET d == IF a.status # 200 THEN dash
                  ELSE [dash EXCEPT
                          !.matches = IF r.append THEN @ \o a.matches ELSE a.matches,
                          !.hasMoreMatches = a.pagination.hasMore]
         IN /\ dash' = IF r.nextPage = 0 THEN d
                       ELSE [d EXCEPT !.matchesPage = r.nextPage,
                                      !.loadingMoreMatches = FALSE]
            /\ browser' = [browser EXCEPT !.matchesInFlight = @ \ {r}]
  /\ UNCHANGED <<players, matches, match_participants, resp, revalidation>>

\* loadMoreMatches up to its await.
loadMoreMatches ==
  /\ dash.mounted
  /\ Eventful(browser.now)
  /\ dash.defaultTab = "matches"
  /\ ~(dash.loadingMoreMatches \/ ~dash.hasMoreMatches)
  /\ dash.matchesPage < MaxPage
  /\ dash' = [dash EXCEPT !.autoRefreshDisabled = TRUE,
                          !.loadingMoreMatches = TRUE]
  /\ browser' = [browser EXCEPT
                   !.matchesInFlight =
                      @ \cup {MatchesRequest(dash.matchesPage + 1, TRUE,
                                             dash.filter, dash.matchesPage + 1)},
                   !.fetchingFrom =
                      MatchesRequest(dash.matchesPage + 1, TRUE, dash.filter,
                                     dash.matchesPage + 1).q]
  /\ UNCHANGED <<players, matches, match_participants, resp, revalidation>>

\* The visitor changes the selection of the filter panel.
SelectFilter ==
  /\ dash.mounted
  /\ Eventful(browser.now)
  /\ dash.defaultTab = "matches"
  /\ \E f \in PageFilters \ {dash.filter} : dash' = [dash EXCEPT !.filter = f]
  /\ UNCHANGED <<players, matches, match_participants, resp, browser, revalidation>>

\* handleSearch: the page counter, the URL and the first page of matches.
\* A URL that changes gives new searchParams, and the effect runs again.
handleSearch ==
  /\ dash.mounted
  /\ Eventful(browser.now)
  /\ dash.defaultTab = "matches"
  /\ browser.playersInFlight.foreground < MaxInFlight
  /\ LET d == [dash EXCEPT !.matchesPage = 1]
         b == [browser EXCEPT
                 !.searchParams = dash.filter,
                 !.matchesInFlight = @ \cup {MatchesRequest(1, FALSE, dash.filter, 0)},
                 !.fetchingFrom = MatchesRequest(1, FALSE, dash.filter, 0).q]
     IN IF dash.filter = browser.searchParams
        THEN dash' = d /\ browser' = b
        ELSE dash' = Effect(d, b).dash /\ browser' = Effect(d, b).browser
  /\ UNCHANGED <<players, matches, match_participants, resp, revalidation>>

\* The Clear All button: the filters are emptied, then as handleSearch.
ClearAll ==
  /\ dash.mounted
  /\ Eventful(browser.now)
  /\ dash.defaultTab = "matches"
  /\ browser.playersInFlight.foreground < MaxInFlight
  /\ LET d == [dash EXCEPT !.filter = NoFilter, !.matchesPage = 1]
         b == [browser EXCEPT
                 !.searchParams = NoFilter,
                 !.matchesInFlight = @ \cup {MatchesRequest(1, FALSE, NoFilter, 0)},
                 !.fetchingFrom = MatchesRequest(1, FALSE, NoFilter, 0).q]
     IN IF browser.searchParams = NoFilter
        THEN dash' = d /\ browser' = b
        ELSE dash' = Effect(d, b).dash /\ browser' = Effect(d, b).browser
  /\ UNCHANGED <<players, matches, match_participants, resp, revalidation>>

(***************************************************************************)
(* /api/revalidate                                                         *)
(***************************************************************************)
\* const VALID_TAGS = ["players", "matches"] as const
VALID_TAGS == {"players", "matches"}

\* The body of the answer: { revalidated: true, now: Date.now(), tags }, or
\* the 400 answer, which has no such fields.
RevalidateAnswer(tags, now) ==
  IF tags = {} \/ ~(tags \subseteq VALID_TAGS) THEN NoRevalidation
  ELSE [revalidated |-> TRUE, now |-> now, tags |-> tags]

\* POST or GET of /api/revalidate: revalidateTag(tag, "max") for each tag.
\* No fetch and no cache of the application carries a tag, and the players
\* cache of the pages is not reached by it.
Revalidate ==
  /\ Eventful(browser.now)
  /\ \E tags \in {{}, {"players"}, {"players", "matches"}, {"players", "scores"}} :
       revalidation' = RevalidateAnswer(tags, browser.now)
  /\ UNCHANGED <<players, matches, match_participants, resp, dash, browser>>

(***************************************************************************)
(* Specification of a visitor's page, rankings or matches, from its load   *)
(* on, over a fixed store: three players, one ranked, and one match of     *)
(* player 1 against player 3.                                              *)
(***************************************************************************)
DashPlayers == (1 :> PlayerRow(1300, TRUE, 3)) @@ (2 :> PlayerRow(1250, FALSE, 1))
               @@ (3 :> PlayerRow(1200, FALSE, 2))

\* What localStorage may hold before the first page: nothing, a text that
\* is not JSON, an entry without fields, an entry without data.
FirstItems ==
  {NoItem, GarbageItem, JSONstringify(EmptyObject),
   JSONstringify([EmptyObject EXCEPT !.timestamp = 0])}

InitStore ==
  /\ players = DashPlayers
  /\ matches = <<[created_at |-> 1, archived |-> FALSE]>>
  /\ match_participants = <<Row(1, 1, "FOX", FALSE, TRUE),
                            Row(1, 3, "MARIO", FALSE, FALSE)>>
  /\ resp = NoResp

\* A first visit: no page is open, localStorage is empty.
InitDash ==
  /\ InitStore
  /\ NoClient

NextDash ==
  \/ OpenPage
  \/ PlayersResponse
  \/ RefreshTick
  \/ CountdownTick
  \/ Advance
  \/ MatchesResponse
  \/ loadMoreMatches
  \/ SelectFilter
  \/ handleSearch
  \/ ClearAll

SpecDash == InitDash /\ [][NextDash]_vars

(***************************************************************************)
(* Specification of the rankings page, loaded and loaded again, with its   *)
(* players cache and the revalidation route.                               *)
(***************************************************************************)
InitCache ==
  /\ InitStore
  /\ dash = InitialState("rankings")
  /\ \E item \in FirstItems :
       browser = [FreshBrowser EXCEPT !.playersCacheItem = item]
  /\ revalidation = NoRevalidation

NextCache ==
  \/ LoadRankings
  \/ PlayersResponse
  \/ PlayersFail
  \/ RefreshTick
  \/ CountdownTick
  \/ Advance
  \/ Revalidate

SpecCache == InitCache /\ [][NextCache]_vars

\* The ids of the records of a list, as a set.
IdsOf(list) == {list[k].id : k \in 1..Len(list)}

\* C14: the unranked leaderboard holds exactly the players with
\* is_ranked = false, ordered by the top-10-played count descending and,
\* for equal counts, by elo descending; the ranked and the unranked list are
\* disjoint and together hold every player.
C14_UnrankedLeaderboard ==
  LET u == sortedUnrankedPlayers(dash.players)
      r == rankedPlayers(dash.players)
  IN /\ IdsOf(u) = {dash.players[k].id :
                      k \in {j \in 1..Len(dash.players) : ~dash.players[j].is_ranked}}
     /\ \A j, k \in 1..Len(u) :
          j < k => \/ ReportedCount(u[j]) > ReportedCount(u[k])
                   \/ /\ ReportedCount(u[j]) = ReportedCount(u[k])
                      /\ u[j].elo >= u[k].elo
     /\ IdsOf(u) \cap IdsOf(r) = {}
     /\ IdsOf(u) \cup IdsOf(r) = IdsOf(dash.players)
     /\ Len(u) + Len(r) = Len(dash.players)

\* A step that loads a page.
PageLoads == browser'.loads = browser.loads + 1

\* The localStorage entry is JSON with data and a timestamp.
UsableItem ==
  /\ browser.playersCacheItem.kind = "json"
  /\ browser.playersCacheItem.value.hasData
  /\ browser.playersCacheItem.value.timestamp # NoTime

\* The page shows the players of the localStorage entry, is not loading, and
\* has issued no /api/players request.
ShowsCachedPlayers ==
  /\ dash'.players = browser.playersCacheItem.value.data
  /\ ~dash'.loading
  /\ browser'.playersInFlight = [foreground |-> 0, background |-> 0]

\* The page has issued exactly one /api/players request.
OnePlayersRequest ==
  browser'.playersInFlight = [foreground |-> 1, background |-> 0]

PlayersRevalidated ==
  revalidation.revalidated /\ "players" \in revalidation.tags

\* A step after which the page shows players it did not show before: a page
\* load that displays a cache entry, or an answer that is displayed.
DisplaysPlayers ==
  /\ dash'.mounted
  /\ ~dash'.loading
  /\ dash'.lastUpdated # NoTime
  /\ \/ PageLoads
     \/ dash'.lastUpdated # dash.lastUpdated

\* C16: once a revalidation of the players tag has completed, every display
\* of player standings that begins afterwards (a page load that finds a
\* players cache entry included) shows data fetched at or after that
\* revalidation.
C16_NoCacheAcrossInvalidation ==
  [][(PlayersRevalidated /\ DisplaysPlayers)
       => dash'.lastUpdated >= revalidation.now]_vars

\* A step in which the callback of refreshInterval runs on a page whose
\* auto-refresh is not disabled: the interval is due and is armed for its
\* next period, and the effect has not run (no page load, no new URL).
RefreshTicks ==
  /\ dash.mounted
  /\ browser'.loads = browser.loads
  /\ browser'.searchParams = browser.searchParams
  /\ browser.refreshDue = browser.now
  /\ browser'.refreshDue = browser.refreshDue + RefreshPeriod
  /\ ~dash.autoRefreshDisabled

\* C19: every refresh tick on a page whose auto-refresh is not disabled
\* issues a background /api/players request, whatever the players cache
\* holds, and resets the countdown to 30; on the matches page it also
\* requests page 1 of the matches with the selected filters and sets the
\* page counter to 1.
C19_RefreshTick ==
  [][RefreshTicks =>
       /\ browser'.playersInFlight.background = browser.playersInFlight.background + 1
       /\ browser'.playersInFlight.foreground = browser.playersInFlight.foreground
       /\ dash'.refreshing
       /\ dash'.countdown = CountdownStart
       /\ dash.defaultTab = "matches" =>
            /\ MatchesRequest(1, FALSE, dash.filter, 0) \in browser'.matchesInFlight
            /\ dash'.matchesPage = 1]_vars

\* Witness of C19: the matches page right after a refresh tick that ran with
\* a fresh players cache, a countdown of 1 and a selected filter that is not
\* the filter of the URL.
C19_Witness ==
  /\ dash.defaultTab = "matches"
  /\ ~dash.autoRefreshDisabled
  /\ browser.now = RefreshPeriod
  /\ browser.refreshDue = browser.now + RefreshPeriod
  /\ browser.countdownDue = browser.now
  /\ dash.countdown = CountdownStart
  /\ dash.refreshing
  /\ dash.playersCache.present
  /\ CacheFresh(dash.playersCache.timestamp, browser.now)
  /\ browser.playersInFlight.background = 1
  /\ dash.filter # NoFilter
  /\ dash.filter # browser.searchParams
  /\ MatchesRequest(1, FALSE, dash.filter, 0) \in browser.matchesInFlight


\* C22: with only1v1=true a successful GET /api/matches returns eligible
\* matches only (not archived, exactly two non-CPU participants), and the
\* request without other filters and without page returns all of them: a
\* match of two humans and a CPU is returned, a match of one human and one
\* CPU is not.
C22_Only1v1Eligible ==
  (resp.op \in MatchesOps /\ resp.status = 200 /\ resp.arg.only1v1) =>
    /\ IdsOf(resp.rows) \subseteq EligibleMatches(DB)
    /\ (resp.arg.page = {} /\ resp.arg.player = {} /\ resp.arg.character = {})
         => IdsOf(resp.rows) = EligibleMatches(DB)


\* The matches version op of the handler selects for the query q, before
\* paging.
SelectedMatches(db, op, q) ==
  CASE op = "GET_matches_prisma" -> PrismaWhere(db, q)
    [] op = "GET_matches_supabase" -> DOMAIN db.matches
    [] OTHER ->
         IF q.player # {} \/ q.character # {} \/ q.only1v1
         THEN filteredMatches(db, q) ELSE DOMAIN db.matches

\* C26: in a successful answer of GET /api/matches, hasMore is true exactly
\* when a match the request selects lies beyond the returned page; a last
\* page that is full (the number of selected matches is a multiple of the
\* limit) carries hasMore = false.
C26_HasMoreIffMoreExist ==
  (resp.op \in MatchesOps /\ resp.status = 200) =>
    (resp.pagination.hasMore <=>
       Cardinality(SelectedMatches(DB, resp.op, resp.arg)) >
         (resp.pagination.page - 1) * resp.pagination.limit + Len(resp.rows))


\* Match m has, for every player name of the query, a participant of that
\* name, and for every character of the query a participant playing it.
ContainsAll(db, q, m) ==
  /\ \A s \in q.player :
       \E i \in RowsOfMatch(db, m) :
          HasPlayer(db, i) /\ Names[db.match_participants[i].player] = s
  /\ \A c \in q.character :
       \E i \in RowsOfMatch(db, m) : db.match_participants[i].smash_character = c

\* C21: GET /api/matches with player names and/or characters as filters is
\* answered (an error only over participant rows without player); every
\* returned match has all the players and all the characters among its
\* participants; a page that is not full ends the list, so that every match
\* with all of them that is not archived lies on some page; and when no
\* match has all of them the list is empty with hasMore = false.
C21_FiltersAndLogic ==
  (/\ resp.op \in MatchesOps
   /\ resp.arg.player # {} \/ resp.arg.character # {}
   /\ resp.arg.player \subseteq {Names[k] : k \in DOMAIN Names}) =>
    /\ OrphanRows(DB) = {} => resp.status = 200
    /\ resp.status = 200 =>
         /\ \A k \in 1..Len(resp.rows) : ContainsAll(DB, resp.arg, resp.rows[k].id)
         /\ Len(resp.rows) < resp.pagination.limit =>
              Cardinality({m \in DOMAIN matches :
                             ~matches[m].archived /\ ContainsAll(DB, resp.arg, m)})
                <= (resp.pagination.page - 1) * resp.pagination.limit + Len(resp.rows)
         /\ {m \in DOMAIN matches : ContainsAll(DB, resp.arg, m)} = {} =>
              resp.rows = <<>> /\ ~resp.pagination.hasMore


\* The filter set of a query.
FilterOf(q) == [player |-> q.player, character |-> q.character, only1v1 |-> q.only1v1]

\* A step of the refresh or the countdown callback: the timer is due and is
\* re-armed one period later, without the page or its URL changing.
TimerStep ==
  /\ dash.mounted
  /\ browser'.loads = browser.loads
  /\ browser'.searchParams = browser.searchParams
  /\ \/ /\ browser.refreshDue = browser.now
        /\ browser'.refreshDue = browser.refreshDue + RefreshPeriod
     \/ /\ browser.countdownDue = browser.now
        /\ browser'.countdownDue = browser.countdownDue + CountdownPeriod

\* C23: loadMoreMatches disables auto-refresh, and from then on, until the
\* page is loaded again, the flag stays set whatever the visitor does (search,
\* clear, another load-more), the countdown keeps its value, and no timer
\* callback issues a players or matches request or sets the page back to 1.
C23_AutoRefreshStaysDisabled ==
  [][/\ (~dash.loadingMoreMatches /\ dash'.loadingMoreMatches /\ browser'.loads = browser.loads)
          => dash'.autoRefreshDisabled
     /\ (dash.autoRefreshDisabled /\ browser'.loads = browser.loads) =>
          /\ dash'.autoRefreshDisabled
          /\ dash'.countdown = dash.countdown
          /\ TimerStep =>
               /\ browser'.playersInFlight = browser.playersInFlight
               /\ browser'.matchesInFlight = browser.matchesInFlight
               /\ dash'.matchesPage = dash.matchesPage
               /\ dash'.refreshing = dash.refreshing]_vars

\* After a load-more at 1 s the refresh callback of 30 s has run: no request
\* of it is in flight and the countdown still shows the value of 1 s.
C23_Witness ==
  /\ dash.mounted
  /\ dash.autoRefreshDisabled
  /\ browser.now = RefreshPeriod
  /\ browser.refreshDue = 2 * RefreshPeriod
  /\ browser.playersInFlight.background = 0
  /\ dash.countdown = CountdownStart - 1

\* C24: a page that is appended to the displayed list belongs to the filter
\* set of the latest /api/matches request: the answer of a load-more asked
\* under an earlier filter is not applied once a search with another filter
\* has been issued.
C24_OnlyLatestFilterApplied ==
  [][\A r \in browser.matchesInFlight :
       (/\ browser'.loads = browser.loads
        /\ browser'.matchesInFlight = browser.matchesInFlight \ {r}
        /\ r.append
        /\ dash'.matches # dash.matches \/ dash'.hasMoreMatches # dash.hasMoreMatches)
         => FilterOf(r.q) = FilterOf(browser.fetchingFrom)]_vars

\* A load-more request fails: it leaves the requests in flight and neither
\* the list nor hasMoreMatches, which was set, is changed by an answer.
LoadMoreFails ==
  \E r \in browser.matchesInFlight :
    /\ r.nextPage # 0
    /\ browser'.loads = browser.loads
    /\ browser'.matchesInFlight = browser.matchesInFlight \ {r}
    /\ dash.hasMoreMatches /\ dash'.hasMoreMatches
    /\ dash'.matches = dash.matches

\* C25: a failed load-more leaves the list and matchesPage as they were, so
\* the next load-more asks for the same page again.
C25_FailedLoadMoreKeepsPage ==
  [][LoadMoreFails =>
       dash'.matches = dash.matches /\ dash'.matchesPage = dash.matchesPage]_vars


\* C27: on a mounted page refreshing is set exactly while a background
\* players request is in flight and loading exactly while a foreground one
\* is, also when requests overlap; with no request in flight both are clear.
C27_FlagsFollowRequests ==
  dash.mounted =>
    /\ dash.refreshing <=> browser.playersInFlight.background > 0
    /\ dash.loading <=> browser.playersInFlight.foreground > 0

====
